---- MODULE Spec2Model ----
(***************************************************************************)
(* Model of the Elexon generation-data fetcher (src/src/data/fetch_data.py *)
(* class ElexonDataFetcher): the request builder, the retry loop of        *)
(* fetch_generation_data, the response parser, the quality filter and the  *)
(* chunked loop of fetch_historical_data.                                  *)
(*                                                                         *)
(* A DataFrame is a record [cols, rows]: cols is the sequence of column    *)
(* names, rows the sequence of rows, each row a function from the column   *)
(* names to values.  A string that the code builds or parses character by  *)
(* character (the query timestamps) is a sequence of one-character strings.*)
(***************************************************************************)
EXTENDS Integers, Sequences, FiniteSets, TLC

VARIABLES
    pc,       \* position of the running call: idle, request, backoff, ratelimit, done
    caller,   \* who called fetch_generation_data: none, direct, historical
    gen,      \* frame of fetch_generation_data
    hist,     \* frame of fetch_historical_data
    io,       \* I/O events (HTTP requests, sleeps) of the current fetch_generation_data call
    calls,    \* the (start, end) windows fetch_historical_data passed to fetch_generation_data
    rlsleeps, \* number of time.sleep(1) rate-limit sleeps taken by fetch_historical_data
    result,   \* outcome of the top-level call: none, return (with df), raise (with exc)
    X,        \* quality-filter check: the input frame
    Y1,       \* quality-filter check: _apply_quality_checks(X)
    Y2,       \* quality-filter check: _apply_quality_checks(Y1)
    fstage,   \* quality-filter check: how many times the filter has been applied
    flog,     \* quality-filter check: what the filter logged for X
    pbody,    \* parser check: the response body
    pout,     \* parser check: the outcome of _parse_response(pbody)
    nreq      \* number of HTTP requests issued since the top-level call began

vars == <<pc, caller, gen, hist, io, calls, rlsleeps, result, X, Y1, Y2, fstage,
          flog, pbody, pout, nreq>>

(***************************************************************************)
(* Program constants                                                       *)
(***************************************************************************)
MIN_TOTAL_GENERATION == 25000
chunk_size == 7
default_retry_attempts == 3
rate_limit_sleep == 1

(***************************************************************************)
(* Bounds of the model                                                     *)
(***************************************************************************)
MaxLen == 3        \* longest record sequence given to the quality filter
MaxAttempts == 3   \* largest retry_attempts of a direct fetch_generation_data call
MaxDays == 15      \* largest days of a fetch_historical_data call
MaxPeriods == 2    \* most periods of a body given to the parser on its own

(***************************************************************************)
(* Generic helpers                                                         *)
(***************************************************************************)
Range(s) == {s[i] : i \in 1..Len(s)}

RECURSIVE Pow2(_)
Pow2(k) == IF k <= 0 THEN 1 ELSE 2 * Pow2(k - 1)

RECURSIVE SeqsUpTo(_, _)
SeqsUpTo(S, n) ==
    IF n = 0 THEN {<<>>}
    ELSE LET shorter == SeqsUpTo(S, n - 1)
         IN shorter \cup {Append(s, e) : s \in {t \in shorter : Len(t) = n - 1}, e \in S}

RECURSIVE Flatten(_)
Flatten(ss) == IF ss = <<>> THEN <<>> ELSE Head(ss) \o Flatten(Tail(ss))

(***************************************************************************)
(* DataFrames                                                              *)
(***************************************************************************)
RecordCols == <<"timestamp", "fuel_type", "generation_mw">>

EmptyFrame == [cols |-> <<>>, rows |-> <<>>]

\* pd.DataFrame(records): a list of dicts; an empty list gives a frame with no columns
DataFrame(records) ==
    IF records = <<>> THEN EmptyFrame ELSE [cols |-> RecordCols, rows |-> records]

Rec(ts, fuel, mw) == [timestamp |-> ts, fuel_type |-> fuel, generation_mw |-> mw]

\* df.empty
IsEmpty(df) == Len(df.rows) = 0 \/ Len(df.cols) = 0

RECURSIVE SumWhere(_, _)
\* sum of generation_mw over the rows of one timestamp group
SumWhere(rows, ts) ==
    IF rows = <<>> THEN 0
    ELSE (IF Head(rows)["timestamp"] = ts THEN Head(rows)["generation_mw"] ELSE 0)
         + SumWhere(Tail(rows), ts)

RECURSIVE SortedSeq(_)
\* the elements of a finite set of integers, ascending (groupby sorts its keys)
SortedSeq(S) ==
    IF S = {} THEN <<>>
    ELSE LET m == CHOOSE a \in S : \A b \in S : a <= b
         IN <<m>> \o SortedSeq(S \ {m})

\* variant: the threshold taken as exclusive
QualityFlagStrict(total) == total > MIN_TOTAL_GENERATION

\* totals['total_generation'] >= self.MIN_TOTAL_GENERATION
QualityFlag(total) == total >= MIN_TOTAL_GENERATION

\* df.groupby('timestamp')['generation_mw'].sum().reset_index(), renamed, plus quality_flag
GroupTotals(df) ==
    LET keys == SortedSeq({df.rows[i]["timestamp"] : i \in 1..Len(df.rows)})
    IN [cols |-> <<"timestamp", "total_generation", "quality_flag">>,
        rows |-> [k \in 1..Len(keys) |->
                    LET total == SumWhere(df.rows, keys[k])
                    IN [timestamp |-> keys[k],
                        total_generation |-> total,
                        quality_flag |-> QualityFlag(total)]]]

\* pandas' suffixes=('_x', '_y') for the columns both frames have besides the key
MergeName(c, overlap, suffix) == IF c \in overlap THEN c \o suffix ELSE c

RECURSIVE MergeRows(_, _, _, _)
\* inner join on timestamp, in the order of the left rows
MergeRows(lrows, left, right, overlap) ==
    IF lrows = <<>> THEN <<>>
    ELSE LET l == Head(lrows)
             newcols == {MergeName(c, overlap, "_x") : c \in Range(left.cols)}
                        \cup {MergeName(c, overlap, "_y") : c \in Range(right.cols) \ {"timestamp"}}
             Joined(r) ==
                 [c \in newcols |->
                    IF \E lc \in Range(left.cols) : MergeName(lc, overlap, "_x") = c
                    THEN l[CHOOSE lc \in Range(left.cols) : MergeName(lc, overlap, "_x") = c]
                    ELSE r[CHOOSE rc \in Range(right.cols) \ {"timestamp"} :
                              MergeName(rc, overlap, "_y") = c]]
             matches == SelectSeq(right.rows, LAMBDA r : r["timestamp"] = l["timestamp"])
         IN [k \in 1..Len(matches) |-> Joined(matches[k])]
            \o MergeRows(Tail(lrows), left, right, overlap)

\* df.merge(totals[[...]], on='timestamp')
Merge(left, right) ==
    LET overlap == (Range(left.cols) \cap Range(right.cols)) \ {"timestamp"}
        rightcols == SelectSeq(right.cols, LAMBDA c : c # "timestamp")
    IN [cols |-> [i \in 1..Len(left.cols) |-> MergeName(left.cols[i], overlap, "_x")]
                 \o [i \in 1..Len(rightcols) |-> MergeName(rightcols[i], overlap, "_y")],
        rows |-> MergeRows(left.rows, left, right, overlap)]

\* variant: the mask inverted, the flagged-bad rows are the ones kept
KeepRejected(df) ==
    LET kept == SelectSeq(df.rows, LAMBDA r : ~ r["quality_flag"])
        cols == SelectSeq(df.cols, LAMBDA c : c # "quality_flag")
    IN [cols |-> cols,
        rows |-> [k \in 1..Len(kept) |-> [c \in Range(cols) |-> kept[k][c]]]]

\* df[df['quality_flag']].drop(columns=['quality_flag']).reset_index(drop=True)
KeepFlagged(df) ==
    LET kept == SelectSeq(df.rows, LAMBDA r : r["quality_flag"])
        cols == SelectSeq(df.cols, LAMBDA c : c # "quality_flag")
    IN [cols |-> cols,
        rows |-> [k \in 1..Len(kept) |-> [c \in Range(cols) |-> kept[k][c]]]]

_apply_quality_checks(df) ==
    IF IsEmpty(df) THEN df
    ELSE KeepFlagged(Merge(df, GroupTotals(df)))

\* variant: bad_periods counts rows instead of distinct timestamps
QualityLogRowCount(df) ==
    IF IsEmpty(df) THEN [logged |-> FALSE, bad_records |-> 0, bad_periods |-> 0]
    ELSE LET merged == Merge(df, GroupTotals(df))
             bad == Len(SelectSeq(merged.rows, LAMBDA r : ~ r["quality_flag"]))
             good == SelectSeq(merged.rows, LAMBDA r : r["quality_flag"])
         IN [logged |-> bad > 0,
             bad_records |-> bad,
             bad_periods |-> IF bad > 0 THEN Len(merged.rows) - Len(good) ELSE 0]

\* lines 206-211: bad_records is always computed; both counts are logged only
\* when bad_records > 0, and nothing is computed for an empty frame (line 193)
QualityLog(df) ==
    IF IsEmpty(df) THEN [logged |-> FALSE, bad_records |-> 0, bad_periods |-> 0]
    ELSE LET merged == Merge(df, GroupTotals(df))
             bad == Len(SelectSeq(merged.rows, LAMBDA r : ~ r["quality_flag"]))
             nunique(rows) == Cardinality({rows[i]["timestamp"] : i \in 1..Len(rows)})
             good == SelectSeq(merged.rows, LAMBDA r : r["quality_flag"])
         IN [logged |-> bad > 0,
             bad_records |-> bad,
             bad_periods |-> IF bad > 0 THEN nunique(merged.rows) - nunique(good) ELSE 0]

(***************************************************************************)
(* Datetimes.  A datetime is its wall-clock fields plus its UTC offset in  *)
(* hours (off); datetime.utcnow() gives wall-clock fields that denote UTC, *)
(* modelled with off = 0.  Every datetime of the model lies in January     *)
(* 2024, so timedelta arithmetic only moves the day field.                 *)
(***************************************************************************)
Dt(day, hour, us, off) ==
    [year |-> 2024, month |-> 1, day |-> day, hour |-> hour, minute |-> 0,
     second |-> 0, microsecond |-> us, off |-> off]

\* whole seconds since 2024-01-01T00:00:00Z of the instant a datetime denotes
Instant(dt) ==
    (((dt.day - 1) * 24 + dt.hour - dt.off) * 60 + dt.minute) * 60 + dt.second

\* a < b on datetimes
Before(a, b) ==
    \/ Instant(a) < Instant(b)
    \/ Instant(a) = Instant(b) /\ a.microsecond < b.microsecond

SameInstant(a, b) == Instant(a) = Instant(b) /\ a.microsecond = b.microsecond

\* dt + timedelta(days=k)
AddDays(dt, k) == [dt EXCEPT !.day = @ + k]

\* min(a, b): Python returns the first argument unless the second is smaller
Min2(a, b) == IF Before(b, a) THEN b ELSE a

Digits == <<"0", "1", "2", "3", "4", "5", "6", "7", "8", "9">>

Digit(n) == Digits[n + 1]

Pad2(n) == <<Digit((n \div 10) % 10), Digit(n % 10)>>

Pad4(n) == <<Digit((n \div 1000) % 10), Digit((n \div 100) % 10)>> \o Pad2(n)

\* dt.strftime('%Y-%m-%dT%H:%M:%SZ'): the wall-clock fields, then a literal Z
strftime(dt) ==
    Pad4(dt.year) \o <<"-">> \o Pad2(dt.month) \o <<"-">> \o Pad2(dt.day) \o <<"T">>
    \o Pad2(dt.hour) \o <<":">> \o Pad2(dt.minute) \o <<":">> \o Pad2(dt.second) \o <<"Z">>

\* the params dict of fetch_generation_data
BuildParams(start_date, end_date) ==
    [from |-> strftime(start_date), to |-> strftime(end_date)]

DigitValue(c) == CHOOSE n \in 0..9 : Digit(n) = c

RECURSIVE Number(_)
Number(s) == IF s = <<>> THEN 0 ELSE Number(SubSeq(s, 1, Len(s) - 1)) * 10 + DigitValue(s[Len(s)])

\* how the API reads a query timestamp: ISO-8601, second precision, Z = UTC
ParseIso(s) ==
    [year |-> Number(SubSeq(s, 1, 4)), month |-> Number(SubSeq(s, 6, 7)),
     day |-> Number(SubSeq(s, 9, 10)), hour |-> Number(SubSeq(s, 12, 13)),
     minute |-> Number(SubSeq(s, 15, 16)), second |-> Number(SubSeq(s, 18, 19)),
     microsecond |-> 0, off |-> 0]

(***************************************************************************)
(* Response bodies: JSON objects are records with the set of their keys.   *)
(***************************************************************************)
Entry(fuel, mw) == [keys |-> {"psrType", "quantity"}, psrType |-> fuel, quantity |-> mw]

EntryNoQuantity(fuel) == [keys |-> {"psrType"}, psrType |-> fuel, quantity |-> 0]

Period(ts, entries) == [keys |-> {"startTime", "data"}, startTime |-> ts, data |-> entries]

EntryNoPsrType(mw) == [keys |-> {"quantity"}, psrType |-> "", quantity |-> mw]

PeriodNoData(ts) == [keys |-> {"startTime"}, startTime |-> ts, data |-> <<>>]

PeriodNoStart(entries) == [keys |-> {"data"}, startTime |-> 0, data |-> entries]

Body(periods) == [json |-> TRUE, keys |-> {"data"}, data |-> periods]

\* a body for which response.json() raises
NotJson == [json |-> FALSE, keys |-> {}, data |-> <<>>]

\* dict.get(key, [])
GetList(obj, key) == IF key \in obj.keys THEN obj[key] ELSE <<>>

RECURSIVE ParseEntriesSkipping(_, _)
\* variant: an entry without a required field is skipped
ParseEntriesSkipping(ts, entries) ==
    IF entries = <<>> THEN [exc |-> "none", records |-> <<>>]
    ELSE LET e == Head(entries)
             rest == ParseEntriesSkipping(ts, Tail(entries))
         IN IF ~ ({"psrType", "quantity"} \subseteq e.keys) THEN rest
            ELSE [exc |-> "none", records |-> <<Rec(ts, e.psrType, e.quantity)>> \o rest.records]

RECURSIVE ParseEntries(_, _)
\* lines 165-170: the records of one period, or a KeyError
ParseEntries(ts, entries) ==
    IF entries = <<>> THEN [exc |-> "none", records |-> <<>>]
    ELSE LET e == Head(entries)
         IN IF ~ ({"psrType", "quantity"} \subseteq e.keys)
            THEN [exc |-> "KeyError", records |-> <<>>]
            ELSE LET rest == ParseEntries(ts, Tail(entries))
                 IN [exc |-> rest.exc,
                     records |-> IF rest.exc = "none"
                                 THEN <<Rec(ts, e.psrType, e.quantity)>> \o rest.records
                                 ELSE <<>>]

RECURSIVE ParsePeriods(_)
\* lines 162-170
ParsePeriods(periods) ==
    IF periods = <<>> THEN [exc |-> "none", records |-> <<>>]
    ELSE LET p == Head(periods)
         IN IF "startTime" \notin p.keys
            THEN [exc |-> "KeyError", records |-> <<>>]
            ELSE LET here == ParseEntries(p.startTime, GetList(p, "data"))
                     rest == IF here.exc = "none" THEN ParsePeriods(Tail(periods)) ELSE here
                 IN IF here.exc # "none" THEN here
                    ELSE [exc |-> rest.exc,
                          records |-> IF rest.exc = "none"
                                      THEN here.records \o rest.records ELSE <<>>]

RECURSIVE InsertByTimestamp(_, _)
InsertByTimestamp(sorted, r) ==
    IF sorted = <<>> THEN <<r>>
    ELSE IF Head(sorted)["timestamp"] <= r["timestamp"]
         THEN <<Head(sorted)>> \o InsertByTimestamp(Tail(sorted), r)
         ELSE <<r>> \o sorted

RECURSIVE SortByTimestamp(_)
\* the stable sort by timestamp: equal timestamps keep their order
SortByTimestamp(rows) ==
    IF rows = <<>> THEN <<>>
    ELSE InsertByTimestamp(SortByTimestamp(SubSeq(rows, 1, Len(rows) - 1)), rows[Len(rows)])

RemoveAt(rows, i) == SubSeq(rows, 1, i - 1) \o SubSeq(rows, i + 1, Len(rows))

RECURSIVE SortOutcomes(_)
\* df.sort_values('timestamp') with the default kind='quicksort', which is not a
\* stable sort: every ascending arrangement of the rows is a possible result
SortOutcomes(rows) ==
    IF rows = <<>> THEN {<<>>}
    ELSE LET firsts == {i \in 1..Len(rows) :
                           \A j \in 1..Len(rows) : rows[i]["timestamp"] <= rows[j]["timestamp"]}
         IN UNION {{<<rows[i]>> \o rest : rest \in SortOutcomes(RemoveAt(rows, i))} :
                   i \in firsts}

\* the records in the order lines 160-170 append them, or the exception raised
ParseRecords(body) ==
    IF ~ body.json THEN [exc |-> "JSONDecodeError", records |-> <<>>]
    ELSE ParsePeriods(GetList(body, "data"))

\* _parse_response(response.json()): the possible outcomes [exc, df]
_parse_response(body) ==
    LET parsed == ParseRecords(body)
        df == DataFrame(parsed.records)
    IN IF parsed.exc # "none" THEN {[exc |-> parsed.exc, df |-> EmptyFrame]}
       ELSE IF IsEmpty(df) THEN {[exc |-> "none", df |-> df]}
       ELSE {[exc |-> "none", df |-> [df EXCEPT !.rows = sorted]] :
                sorted \in SortOutcomes(df.rows)}

(***************************************************************************)
(* Inputs of the model                                                     *)
(***************************************************************************)
\* start_date / end_date of a direct fetch_generation_data call: 2024-01-10 00:00Z,
\* 12:00Z, 13:00+01:00 (the instant 12:00Z), 09:00-03:00 (again 12:00Z) and
\* 2024-01-11 00:00Z
DirectTimes ==
    {Dt(10, 0, 0, 0), Dt(10, 12, 0, 0), Dt(10, 13, 0, 1), Dt(10, 9, 0, -3), Dt(11, 0, 0, 0)}

\* datetime.utcnow() at the start of fetch_historical_data
NowTimes == {Dt(20, 9, 250000, 0)}

\* status codes other than 200 that the API answers with
FailStatuses == {500}

\* exceptions session.get raises (timeout=30)
TransportErrors == {"Timeout"}

\* hours from 2024-01-01T00:00Z to the 'from' of a request, as the API reads it
FromHour(params) == Instant(ParseIso(params.from)) \div 3600

\* the body the API sends for a request: the period start times of a body below are
\* hours after the 'from' of the request
ApiResponse(body, params) ==
    [body EXCEPT !.data = [i \in 1..Len(body.data) |->
                             [body.data[i] EXCEPT !.startTime = @ + FromHour(params)]]]

\* bodies of a 200 response that parse: no period, one period below the threshold,
\* one period that started a week before the requested window, and two periods of
\* which the first reaches the threshold exactly
GoodBodies ==
    { Body(<<>>),
      Body(<<Period(1, <<Entry("Wind Onshore", 5000)>>)>>),
      Body(<<Period(-168, <<Entry("Nuclear", 25000)>>)>>),
      Body(<<Period(1, <<Entry("Fossil Gas", 20000), Entry("Nuclear", 5000)>>),
             Period(2, <<Entry("Wind Onshore", 5000)>>)>>) }

\* bodies of a 200 response that do not parse
BadBodies ==
    { Body(<<Period(1, <<Entry("Fossil Gas", 20000), Entry("Nuclear", 5000)>>),
             PeriodNoStart(<<Entry("Wind Onshore", 5000)>>)>>) }

(***************************************************************************)
(* Frames, events, outcomes                                                *)
(***************************************************************************)
NoDate == Dt(1, 0, 0, 0)

NoGen == [start_date |-> NoDate, end_date |-> NoDate, retry_attempts |-> 0,
          attempt |-> 0, params |-> [from |-> <<>>, to |-> <<>>]]

NoHist == [days |-> 0, start_date |-> NoDate, end_date |-> NoDate,
           current_start |-> NoDate, current_end |-> NoDate, all_data |-> <<>>]

\* nothing logged by the filter; no parser outcome yet
NoLog == [logged |-> FALSE, bad_records |-> 0, bad_periods |-> 0]

NoOutcome == [exc |-> "pending", df |-> EmptyFrame]

NoResult == [kind |-> "none", exc |-> "none", df |-> EmptyFrame]

Raised(exc) == [kind |-> "raise", exc |-> exc, df |-> EmptyFrame]

Returned(df) == [kind |-> "return", exc |-> "none", df |-> df]

\* line 92
ExhaustedError == "Exception: Failed to fetch data after all retry attempts"

\* an HTTP request of attempt k: status is 0 when session.get raised exc
RequestEvent(k, status, exc) ==
    [ev |-> "request", attempt |-> k, secs |-> 0, status |-> status, exc |-> exc,
     body |-> NotJson]

\* a request answered with status 200 and a body
ResponseEvent(k, exc, body) == [RequestEvent(k, 200, exc) EXCEPT !.body = body]

SleepEvent(k, secs) ==
    [ev |-> "sleep", attempt |-> k, secs |-> secs, status |-> 0, exc |-> "none",
     body |-> NotJson]

NumRequests(log) == Cardinality({i \in 1..Len(log) : log[i].ev = "request"})

NumSleeps(log) == Cardinality({i \in 1..Len(log) : log[i].ev = "sleep"})

(***************************************************************************)
(* fetch_generation_data                                                   *)
(***************************************************************************)
\* variant: one iteration too many
LoopContinuesOffByOne(attempt, n) == attempt + 1 <= n

\* line 70: for attempt in range(retry_attempts): is there an attempt after this one
LoopContinues(attempt, n) == attempt + 1 < n

\* line 87
ShouldBackoff(attempt, n) == attempt < n - 1

\* line 88: 2 ** attempt
BackoffDelay(attempt) == Pow2(attempt)

\* variant: the historical fetch swallows the exception and returns what it has
PropagatePartial(who, h, exc) ==
    IF who = "historical" /\ h.all_data # <<>>
    THEN Returned([cols |-> RecordCols \o <<"total_generation">>,
                   rows |-> Flatten([i \in 1..Len(h.all_data) |-> h.all_data[i].rows])])
    ELSE Raised(exc)

\* an exception leaving fetch_generation_data reaches the top-level caller: neither
\* fetch_historical_data (line 127) nor the convenience functions catch it
Propagate(who, h, exc) == Raised(exc)

\* entry of fetch_generation_data: lines 61-70
EnterGeneration(start_date, end_date, n) ==
    /\ gen' = [start_date |-> start_date, end_date |-> end_date, retry_attempts |-> n,
               attempt |-> 0, params |-> BuildParams(start_date, end_date)]
    /\ io' = <<>>
    /\ IF 0 < n
       THEN pc' = "request" /\ result' = result
       ELSE pc' = "done" /\ result' = Propagate(caller', hist', ExhaustedError)

RECURSIVE Reverse(_)
Reverse(ss) == IF ss = <<>> THEN <<>> ELSE Append(Reverse(Tail(ss)), Head(ss))

\* variant: the chunks concatenated newest first
ConcatReversed(frames) ==
    IF frames = <<>> THEN Raised("ValueError: No objects to concatenate")
    ELSE Returned([cols |-> RecordCols \o <<"total_generation">>,
                   rows |-> Flatten([i \in 1..Len(frames) |-> Reverse(frames)[i].rows])])

\* variant: an empty list of chunks gives an empty frame
ConcatOrEmpty(frames) ==
    Returned([cols |-> <<>>, rows |-> Flatten([i \in 1..Len(frames) |-> frames[i].rows])])

\* pd.concat(all_data, ignore_index=True), lines 133-136
Concat(frames) ==
    IF frames = <<>> THEN Raised("ValueError: No objects to concatenate")
    ELSE LET allcols == Flatten([i \in 1..Len(frames) |-> frames[i].cols])
             firsts == SelectSeq([i \in 1..Len(allcols) |-> <<i, allcols[i]>>],
                                 LAMBDA p : \A j \in 1..(p[1] - 1) : allcols[j] # p[2])
         IN Returned([cols |-> [i \in 1..Len(firsts) |-> firsts[i][2]],
                      rows |-> Flatten([i \in 1..Len(frames) |-> frames[i].rows])])

\* variant: the chunk end not clamped to end_date
ChunkEndNoClamp(current_start, end_date) == AddDays(current_start, chunk_size)

\* variant: chunks one day short
ChunkEndShort(current_start, end_date) ==
    Min2(AddDays(current_start, chunk_size - 1), end_date)

\* line 124
ChunkEnd(current_start, end_date) == Min2(AddDays(current_start, chunk_size), end_date)

\* the while loop of fetch_historical_data from its test (line 123) to the next
\* blocking point: the first request of the next chunk, or the return
HistoricalLoop(h) ==
    /\ caller' = "historical"
    /\ IF Before(h.current_start, h.end_date)
       THEN LET current_end == ChunkEnd(h.current_start, h.end_date)
            IN /\ hist' = [h EXCEPT !.current_end = current_end]
               /\ calls' = Append(calls, <<h.current_start, current_end>>)
               /\ EnterGeneration(h.current_start, current_end, default_retry_attempts)
       ELSE /\ hist' = h
            /\ calls' = calls
            /\ result' = Concat(h.all_data)
            /\ pc' = "done"
            /\ UNCHANGED <<gen, io>>

\* variant: the historical loop appends the chunk but does not advance current_start
GenerationReturnsNoAdvance(df) ==
    IF caller = "direct"
    THEN /\ result' = Returned(df)
         /\ pc' = "done"
         /\ UNCHANGED <<hist, calls>>
    ELSE /\ hist' = [hist EXCEPT !.all_data = Append(@, df)]
         /\ pc' = "ratelimit"
         /\ UNCHANGED <<result, calls>>

\* return df (line 81)
GenerationReturns(df) ==
    IF caller = "direct"
    THEN /\ result' = Returned(df)
         /\ pc' = "done"
         /\ UNCHANGED <<hist, calls>>
    ELSE \* lines 128-130: append, advance; the sleep of line 131 is the next step
         /\ hist' = [hist EXCEPT !.all_data = Append(@, df),
                                 !.current_start = hist.current_end]
         /\ pc' = "ratelimit"
         /\ UNCHANGED <<result, calls>>

\* the except clause, lines 85-90
HandleException(exc) ==
    IF ShouldBackoff(gen.attempt, gen.retry_attempts)
    THEN pc' = "backoff" /\ result' = result
    ELSE pc' = "done" /\ result' = Propagate(caller, hist, exc)

\* the loop moves on to the next attempt, or falls out to line 92
NextAttempt ==
    IF LoopContinues(gen.attempt, gen.retry_attempts)
    THEN /\ gen' = [gen EXCEPT !.attempt = @ + 1]
         /\ pc' = "request"
         /\ result' = result
    ELSE /\ gen' = gen
         /\ pc' = "done"
         /\ result' = Propagate(caller, hist, ExhaustedError)

\* a direct call of fetch_generation_data(start_date, end_date, retry_attempts)
FetchGenerationData(start_date, end_date, n) ==
    /\ pc = "idle"
    /\ caller' = "direct"
    /\ hist' = hist
    /\ EnterGeneration(start_date, end_date, n)
    /\ UNCHANGED <<calls, rlsleeps, X, Y1, Y2, fstage, flog, pbody, pout, nreq>>

\* variant: the 200 branch keeps the frame but does not return, the loop goes on
RequestOkNoReturn(body) ==
    /\ pc = "request"
    /\ \E r \in _parse_response(ApiResponse(body, gen.params)) :
          /\ r.exc = "none"
          /\ io' = Append(io, ResponseEvent(gen.attempt, "none", ApiResponse(body, gen.params)))
    /\ NextAttempt
    /\ nreq' = nreq + 1
    /\ UNCHANGED <<caller, hist, calls, rlsleeps, X, Y1, Y2, fstage, flog, pbody, pout>>

\* the request answers 200 with a body that parses: lines 72-81
RequestOk(body) ==
    /\ pc = "request"
    /\ \E r \in _parse_response(ApiResponse(body, gen.params)) :
          /\ r.exc = "none"
          /\ io' = Append(io, ResponseEvent(gen.attempt, "none", ApiResponse(body, gen.params)))
          /\ GenerationReturns(_apply_quality_checks(r.df))
    /\ nreq' = nreq + 1
    /\ UNCHANGED <<caller, gen, rlsleeps, X, Y1, Y2, fstage, flog, pbody, pout>>

\* the request answers 200 and response.json() or _parse_response raises: line 75,
\* inside the try, so the except clause of line 85 handles it
RequestMalformed(body) ==
    /\ pc = "request"
    /\ \E r \in _parse_response(ApiResponse(body, gen.params)) :
          /\ r.exc # "none"
          /\ io' = Append(io, ResponseEvent(gen.attempt, r.exc, ApiResponse(body, gen.params)))
          /\ HandleException(r.exc)
    /\ nreq' = nreq + 1
    /\ UNCHANGED <<caller, gen, hist, calls, rlsleeps, X, Y1, Y2, fstage, flog, pbody, pout>>

\* the request answers another status: lines 82-83, then the next loop iteration
RequestStatus(code) ==
    /\ pc = "request"
    /\ io' = Append(io, RequestEvent(gen.attempt, code, "none"))
    /\ NextAttempt
    /\ nreq' = nreq + 1
    /\ UNCHANGED <<caller, hist, calls, rlsleeps, X, Y1, Y2, fstage, flog, pbody, pout>>

\* session.get raises: lines 85-90
RequestTransportError(exc) ==
    /\ pc = "request"
    /\ io' = Append(io, RequestEvent(gen.attempt, 0, exc))
    /\ HandleException(exc)
    /\ nreq' = nreq + 1
    /\ UNCHANGED <<caller, gen, hist, calls, rlsleeps, X, Y1, Y2, fstage, flog, pbody, pout>>

\* time.sleep(2 ** attempt), line 88, then the next loop iteration
BackoffSleep ==
    /\ pc = "backoff"
    /\ io' = Append(io, SleepEvent(gen.attempt, BackoffDelay(gen.attempt)))
    /\ NextAttempt
    /\ UNCHANGED <<caller, hist, calls, rlsleeps, X, Y1, Y2, fstage, flog, pbody, pout, nreq>>

(***************************************************************************)
(* fetch_historical_data                                                   *)
(***************************************************************************)
\* lines 115-127
FetchHistoricalData(days, now) ==
    /\ pc = "idle"
    /\ HistoricalLoop([days |-> days, start_date |-> AddDays(now, -days), end_date |-> now,
                       current_start |-> AddDays(now, -days), current_end |-> NoDate,
                       all_data |-> <<>>])
    /\ UNCHANGED <<rlsleeps, X, Y1, Y2, fstage, flog, pbody, pout, nreq>>

\* variant: the loop goes on to the next chunk without the sleep
RateLimitSleepSkipped ==
    /\ pc = "ratelimit"
    /\ rlsleeps' = rlsleeps
    /\ HistoricalLoop(hist)
    /\ UNCHANGED <<X, Y1, Y2, fstage, flog, pbody, pout, nreq>>

\* time.sleep(1), line 131, then the loop test
RateLimitSleep ==
    /\ pc = "ratelimit"
    /\ rlsleeps' = rlsleeps + rate_limit_sleep
    /\ HistoricalLoop(hist)
    /\ UNCHANGED <<X, Y1, Y2, fstage, flog, pbody, pout, nreq>>

(***************************************************************************)
(* The fetcher                                                             *)
(***************************************************************************)
Init ==
    /\ pc = "idle"
    /\ caller = "none"
    /\ gen = NoGen
    /\ hist = NoHist
    /\ io = <<>>
    /\ calls = <<>>
    /\ rlsleeps = 0
    /\ result = NoResult
    /\ X = EmptyFrame
    /\ Y1 = EmptyFrame
    /\ Y2 = EmptyFrame
    /\ fstage = 0
    /\ flog = NoLog
    /\ pbody = NotJson
    /\ pout = NoOutcome
    /\ nreq = 0

Next ==
    \/ \E s \in DirectTimes, e \in DirectTimes, n \in -1..MaxAttempts :
          FetchGenerationData(s, e, n)
    \/ \E d \in -1..MaxDays, now \in NowTimes : FetchHistoricalData(d, now)
    \/ \E b \in GoodBodies : RequestOk(b)
    \/ \E b \in BadBodies : RequestMalformed(b)
    \/ \E c \in FailStatuses : RequestStatus(c)
    \/ \E x \in TransportErrors : RequestTransportError(x)
    \/ BackoffSleep
    \/ RateLimitSleep

Spec == Init /\ [][Next]_vars

\* the program is one thread that runs on: session.get returns or raises within its
\* timeout (line 142) and time.sleep returns
SpecLive == Spec /\ WF_vars(Next)

(***************************************************************************)
(* The quality filter on its own: every record sequence up to MaxLen       *)
(***************************************************************************)
FilterTimestamps == {1, 2}

FilterFuels == {"Nuclear", "Wind Onshore"}

FilterQuantities == {5000, 20000, 25000}

FilterRecords ==
    {Rec(ts, f, q) : ts \in FilterTimestamps, f \in FilterFuels, q \in FilterQuantities}

\* one period of 3 fuel types totalling 30000 MW, one of 2 fuel types totalling 10000 MW
ScenarioFrame ==
    DataFrame(<<Rec(1, "Fossil Gas", 20000), Rec(1, "Nuclear", 5000),
                Rec(1, "Wind Onshore", 5000), Rec(2, "Fossil Gas", 5000),
                Rec(2, "Wind Onshore", 5000)>>)

InitFilter ==
    /\ pc = "idle"
    /\ caller = "none"
    /\ gen = NoGen
    /\ hist = NoHist
    /\ io = <<>>
    /\ calls = <<>>
    /\ rlsleeps = 0
    /\ result = NoResult
    /\ X \in {DataFrame(s) : s \in SeqsUpTo(FilterRecords, MaxLen)} \cup {ScenarioFrame}
    /\ Y1 = EmptyFrame
    /\ Y2 = EmptyFrame
    /\ fstage = 0
    /\ flog = NoLog
    /\ pbody = NotJson
    /\ pout = NoOutcome
    /\ nreq = 0

ApplyFilter ==
    /\ fstage = 0
    /\ Y1' = _apply_quality_checks(X)
    /\ flog' = QualityLog(X)
    /\ fstage' = 1
    /\ UNCHANGED <<pc, caller, gen, hist, io, calls, rlsleeps, result, X, Y2, pbody, pout, nreq>>

ApplyFilterAgain ==
    /\ fstage = 1
    /\ Y2' = _apply_quality_checks(Y1)
    /\ fstage' = 2
    /\ UNCHANGED <<pc, caller, gen, hist, io, calls, rlsleeps, result, X, Y1, flog, pbody, pout, nreq>>

NextFilter == ApplyFilter \/ ApplyFilterAgain

SpecFilter == InitFilter /\ [][NextFilter]_vars

(***************************************************************************)
(* The response parser on its own: every body of up to MaxPeriods periods  *)
(***************************************************************************)
GoodEntryLists ==
    SeqsUpTo({Entry("Fossil Gas", 20000), Entry("Wind Onshore", 5000)}, 2)

ParserPeriods ==
    {Period(ts, es) : ts \in {1, 2}, es \in GoodEntryLists}
    \cup { PeriodNoStart(<<Entry("Wind Onshore", 5000)>>),
           PeriodNoData(1),
           Period(1, <<Entry("Fossil Gas", 20000), EntryNoQuantity("Nuclear")>>),
           Period(2, <<EntryNoPsrType(5000)>>) }

ParserBodies == {Body(ps) : ps \in SeqsUpTo(ParserPeriods, MaxPeriods)}

InitParse ==
    /\ pc = "idle"
    /\ caller = "none"
    /\ gen = NoGen
    /\ hist = NoHist
    /\ io = <<>>
    /\ calls = <<>>
    /\ rlsleeps = 0
    /\ result = NoResult
    /\ X = EmptyFrame
    /\ Y1 = EmptyFrame
    /\ Y2 = EmptyFrame
    /\ fstage = 0
    /\ flog = NoLog
    /\ pbody \in ParserBodies
    /\ pout = NoOutcome
    /\ nreq = 0

ParseResponse ==
    /\ pout.exc = "pending"
    /\ pout' \in _parse_response(pbody)
    /\ UNCHANGED <<pc, caller, gen, hist, io, calls, rlsleeps, result, X, Y1, Y2, fstage,
                   flog, pbody, nreq>>

NextParse == ParseResponse

SpecParse == InitParse /\ [][NextParse]_vars

(***************************************************************************)
(* Properties                                                              *)
(***************************************************************************)
\* the three GenerationRecord fields of each row
Project(rows) ==
    [k \in 1..Len(rows) |->
        Rec(rows[k]["timestamp"], rows[k]["fuel_type"], rows[k]["generation_mw"])]

GroupIsValid(rows, ts) == SumWhere(rows, ts) >= 25000

CountWhere(rows, ts) == Cardinality({i \in 1..Len(rows) : rows[i]["timestamp"] = ts})

\* C1: the quality filter returns exactly the records of X whose timestamp group sums
\* to at least 25000 (inclusive), in their order in X; so every group of the output
\* sums to at least 25000 and every timestamp is kept or dropped as a whole group.
C1_FilterKeepsValidGroups ==
    fstage >= 1 =>
        /\ Project(Y1.rows)
             = Project(SelectSeq(X.rows, LAMBDA r : GroupIsValid(X.rows, r["timestamp"])))
        /\ \A k \in 1..Len(Y1.rows) : SumWhere(Y1.rows, Y1.rows[k]["timestamp"]) >= 25000
        /\ \A ts \in FilterTimestamps :
              CountWhere(Y1.rows, ts) \in {0, CountWhere(X.rows, ts)}

\* a group summing to exactly 25000 is kept, another group is dropped, and the kept
\* records are not contiguous in X
C1_Witness ==
    /\ fstage = 1
    /\ Len(X.rows) = 3
    /\ Len(Y1.rows) = 2
    /\ SumWhere(X.rows, 1) = 25000
    /\ X.rows[1]["timestamp"] = 1
    /\ X.rows[2]["timestamp"] = 2
    /\ X.rows[3]["timestamp"] = 1
    /\ X.rows[1]["fuel_type"] # X.rows[3]["fuel_type"]

AllRequestsFailedUpstream == \A i \in 1..Len(io) : io[i].ev = "request" => io[i].status # 200

\* C2: with retry_attempts = n >= 1 and every attempt failing upstream (non-success
\* status or transport failure, in any mix) exactly n HTTP requests are issued and
\* the call fails without returning data.
C2_ExactlyNRequests ==
    /\ (gen.retry_attempts >= 1 /\ AllRequestsFailedUpstream) =>
          NumRequests(io) <= gen.retry_attempts
    /\ (pc = "done" /\ gen.retry_attempts >= 1 /\ AllRequestsFailedUpstream) =>
          /\ NumRequests(io) = gen.retry_attempts
          /\ result.kind = "raise"
          /\ result.df = EmptyFrame

C2_Witness ==
    /\ pc = "done"
    /\ caller = "direct"
    /\ gen.retry_attempts = 3
    /\ NumRequests(io) = 3
    /\ AllRequestsFailedUpstream
    /\ \E i \in 1..Len(io) : io[i].ev = "request" /\ io[i].status = 500
    /\ \E i \in 1..Len(io) : io[i].ev = "request" /\ io[i].exc = "Timeout"
    /\ result.kind = "raise"

\* C3: after failed attempt k the client waits exactly 2^k seconds before the next
\* attempt, whether the attempt failed with a non-success status or a transport
\* failure.
C3_BackoffBeforeEveryRetry ==
    \A i \in 2..Len(io) :
        io[i].ev = "request" =>
            /\ io[i - 1].ev = "sleep"
            /\ io[i - 1].secs = Pow2(io[i].attempt - 1)

\* all attempts are used up and none had a success response
Exhausted ==
    /\ pc = "done"
    /\ gen.retry_attempts >= 1
    /\ NumRequests(io) = gen.retry_attempts
    /\ AllRequestsFailedUpstream

\* C4: exhausting all attempts always ends in the one terminal error kind,
\* never in a raw transport error and never in a returned result.
C4_AlwaysExhaustedError == Exhausted => result = Raised(ExhaustedError)

\* C5: a 200 response whose body fails to parse ends the call at once: no HTTP
\* request and no backoff sleep follows it.
C5_MalformedNotRetried ==
    \A i \in 1..Len(io) :
        (io[i].ev = "request" /\ io[i].status = 200 /\ io[i].exc # "none") => i = Len(io)

WindowSeconds(w) == Instant(w[2]) - Instant(w[1])

\* C6: the windows a historical fetch over [start, end), start < end, passes to
\* fetch_generation_data start at start, each begins where the one before ended,
\* each is longer than 0 and at most 7 days, and the last ends at end.
C6_WindowsPartitionRange ==
    (caller = "historical" /\ hist.days >= 1) =>
        /\ Len(calls) >= 1
        /\ calls[1][1] = hist.start_date
        /\ \A i \in 1..(Len(calls) - 1) : calls[i][2] = calls[i + 1][1]
        /\ \A i \in 1..Len(calls) :
              /\ Before(calls[i][1], calls[i][2])
              /\ WindowSeconds(calls[i]) <= 7 * 86400
              /\ ~ Before(hist.end_date, calls[i][2])
        /\ (pc = "done" /\ result.kind = "return") => calls[Len(calls)][2] = hist.end_date

C6_Witness ==
    /\ caller = "historical"
    /\ hist.days = 15
    /\ pc = "done"
    /\ result.kind = "return"
    /\ Len(calls) = 3
    /\ WindowSeconds(calls[3]) = 86400

\* a sub-window's fetch was started, is no longer running and produced no output
SubWindowFailed ==
    /\ caller = "historical"
    /\ pc \notin {"request", "backoff"}
    /\ Len(calls) > Len(hist.all_data)

\* C7: when the fetch of a sub-window fails the historical fetch fails as a whole: it
\* raises, no DataFrame reaches the caller, and nothing more is fetched.
C7_AllOrNothing ==
    SubWindowFailed =>
        /\ pc = "done"
        /\ result.kind = "raise"
        /\ result.df = EmptyFrame
        /\ ~ ENABLED Next

\* the second sub-window fails after the first one delivered records
C7_Witness ==
    /\ SubWindowFailed
    /\ Len(calls) = 2
    /\ Len(hist.all_data) = 1
    /\ Len(hist.all_data[1].rows) = 2
    /\ result.kind = "raise"

\* C8: filter(filter(X)) = filter(X): same records, same order, same fields.
C8_FilterIdempotent == fstage = 2 => (Y2.cols = Y1.cols /\ Y2.rows = Y1.rows)

\* C9: a window fetch with start >= end is rejected before any I/O: no HTTP request
\* and no sleep.
C9_InvalidRangeNoIO ==
    (caller = "direct" /\ ~ Before(gen.start_date, gen.end_date)) =>
        /\ NumRequests(io) = 0
        /\ NumSleeps(io) = 0

WholeSecond(dt) == dt.microsecond = 0

\* C10: for timezone-aware whole-second instants start < end, whatever their UTC
\* offset, the 'from' and 'to' strings parse back to exactly start and end.
C10_ParamsRoundTrip ==
    (caller = "direct" /\ Before(gen.start_date, gen.end_date)
       /\ WholeSecond(gen.start_date) /\ WholeSecond(gen.end_date)) =>
        /\ SameInstant(ParseIso(gen.params.from), gen.start_date)
        /\ SameInstant(ParseIso(gen.params.to), gen.end_date)

Parsed == pout.exc # "pending"

\* the entries of a period: all of them, none when the period has no nested list
EntriesOf(p) == IF "data" \in p.keys THEN p.data ELSE <<>>

\* a period without start time, or an entry without fuel type code or quantity
LacksKeyedField(body) ==
    \E i \in 1..Len(body.data) :
        \/ "startTime" \notin body.data[i].keys
        \/ \E k \in 1..Len(EntriesOf(body.data[i])) :
              ~ ({"psrType", "quantity"} \subseteq EntriesOf(body.data[i])[k].keys)

LacksEntryList(body) == \E i \in 1..Len(body.data) : "data" \notin body.data[i].keys

\* one record per fuel entry of every period, in the order of the body
EntryRecords(body) ==
    Flatten([i \in 1..Len(body.data) |->
               [k \in 1..Len(EntriesOf(body.data[i])) |->
                  Rec(body.data[i].startTime,
                      EntriesOf(body.data[i])[k].psrType,
                      EntriesOf(body.data[i])[k].quantity)]])

\* C11: for a well-formed body the parser gives one record per fuel entry of every
\* period, ascending by timestamp, records of equal timestamp in their input order.
C11_ParserStableSort ==
    (Parsed /\ ~ LacksKeyedField(pbody) /\ ~ LacksEntryList(pbody)) =>
        /\ pout.exc = "none"
        /\ pout.df.rows = SortByTimestamp(EntryRecords(pbody))

\* C12 as stated: a period or entry without a required field (start time, nested
\* entry list, fuel type code, quantity) makes the parser fail and reject the response.
C12_MissingFieldRejected ==
    (Parsed /\ (LacksKeyedField(pbody) \/ LacksEntryList(pbody))) =>
        /\ pout.exc = "KeyError"
        /\ pout.df = EmptyFrame

\* C12 as the code has it: a period without start time, or an entry without fuel type
\* code or quantity, makes the parser fail with a KeyError and no record of the
\* response comes out; a period without the nested entry list is read as a period
\* with no entries and is no error.
C12_KeyedFieldRejected ==
    Parsed =>
        /\ LacksKeyedField(pbody) => (pout.exc = "KeyError" /\ pout.df = EmptyFrame)
        /\ ~ LacksKeyedField(pbody) =>
              /\ pout.exc = "none"
              /\ Len(pout.df.rows) = Len(EntryRecords(pbody))

\* a well-formed period with records, then a period with an entry without quantity
C12_Witness ==
    /\ Parsed
    /\ Len(pbody.data) = 2
    /\ ~ LacksKeyedField(Body(<<pbody.data[1]>>))
    /\ Len(EntriesOf(pbody.data[1])) = 2
    /\ \E k \in 1..Len(pbody.data[2].data) : "quantity" \notin pbody.data[2].data[k].keys
    /\ pout.exc = "KeyError"
    /\ pout.df = EmptyFrame

CeilDiv(a, b) == (a + b - 1) \div b

\* C13: every sub-window but the last is exactly 7 days long, a span of d >= 1 days
\* takes exactly ceil(d/7) calls of fetch_generation_data, and a 10-day span takes
\* the two calls [start, start+7d) and [start+7d, start+10d).
C13_ChunkCount ==
    (caller = "historical" /\ hist.days >= 1) =>
        /\ \A i \in 1..(Len(calls) - 1) : WindowSeconds(calls[i]) = 7 * 86400
        /\ Len(calls) <= CeilDiv(hist.days, 7)
        /\ (pc = "done" /\ result.kind = "return") => Len(calls) = CeilDiv(hist.days, 7)
        /\ hist.days = 10 =>
              /\ calls[1] = <<hist.start_date, AddDays(hist.start_date, 7)>>
              /\ Len(calls) >= 2 =>
                    calls[2] = <<AddDays(hist.start_date, 7), AddDays(hist.start_date, 10)>>

C13_Witness ==
    /\ caller = "historical"
    /\ hist.days = 10
    /\ pc = "done"
    /\ result.kind = "return"
    /\ Len(calls) = 2
    /\ calls[2][2] = hist.end_date

RECURSIVE RowsBefore(_, _)
\* number of rows in the first i frames
RowsBefore(frames, i) == IF i = 0 THEN 0 ELSE RowsBefore(frames, i - 1) + Len(frames[i].rows)

NonDecreasing(rows) ==
    \A k \in 1..(Len(rows) - 1) : rows[k]["timestamp"] <= rows[k + 1]["timestamp"]

\* a timestamp (hours since 2024-01-01T00:00Z) lies in the window [w[1], w[2])
InWindow(ts, w) ==
    /\ \/ ts * 3600 > Instant(w[1])
       \/ ts * 3600 = Instant(w[1]) /\ w[1].microsecond = 0
    /\ \/ ts * 3600 < Instant(w[2])
       \/ ts * 3600 = Instant(w[2]) /\ w[2].microsecond > 0

\* every record a sub-window delivered has its timestamp in that sub-window
DeliveredInWindow ==
    \A i \in 1..Len(hist.all_data) :
        \A k \in 1..Len(hist.all_data[i].rows) :
            InWindow(hist.all_data[i].rows[k]["timestamp"], calls[i])

\* C14: on success the result of fetch_historical_data is the sub-window outputs one
\* after the other in the order the sub-windows were processed, and it is in
\* non-decreasing timestamp order when every sub-window's records lie in its window.
C14_ConcatChronological ==
    (caller = "historical" /\ pc = "done" /\ result.kind = "return") =>
        /\ Len(hist.all_data) = Len(calls)
        /\ Len(result.df.rows) = RowsBefore(hist.all_data, Len(hist.all_data))
        /\ \A i \in 1..Len(hist.all_data) :
              \A k \in 1..Len(hist.all_data[i].rows) :
                  result.df.rows[RowsBefore(hist.all_data, i - 1) + k] = hist.all_data[i].rows[k]
        /\ DeliveredInWindow => NonDecreasing(result.df.rows)

\* three sub-windows, the first and the last delivering records
C14_Witness ==
    /\ caller = "historical"
    /\ pc = "done"
    /\ result.kind = "return"
    /\ Len(calls) = 3
    /\ Len(hist.all_data[1].rows) = 2
    /\ Len(hist.all_data[2].rows) = 0
    /\ Len(hist.all_data[3].rows) = 2
    /\ DeliveredInWindow
    /\ result.df.rows[2]["timestamp"] < result.df.rows[3]["timestamp"]

\* the last event of the running call is a request answered 200 with a body that parsed
LastIsSuccess ==
    /\ io # <<>>
    /\ io[Len(io)].ev = "request"
    /\ io[Len(io)].status = 200
    /\ io[Len(io)].exc = "none"

\* the frame fetch_generation_data handed to its caller
ReturnedFrame ==
    IF caller = "direct" THEN result.df ELSE hist.all_data[Len(hist.all_data)]

\* the call of fetch_generation_data has returned normally
GenerationReturned ==
    IF caller = "direct"
    THEN pc = "done" /\ result.kind = "return"
    ELSE /\ pc \in {"ratelimit", "done"}
         /\ result.kind # "raise"
         /\ Len(hist.all_data) = Len(calls)

\* the body has periods with entries, and every period total is below the threshold
AllPeriodsBelow(body) ==
    /\ EntryRecords(body) # <<>>
    /\ \A i \in 1..Len(body.data) :
          ~ GroupIsValid(EntryRecords(body), body.data[i].startTime)

\* C15: a 200 response with an empty period list, or one in which every period total
\* is below the threshold, is no failure: fetch_generation_data returns normally and
\* its result is empty.
C15_EmptyIsSuccess ==
    (LastIsSuccess /\ (io[Len(io)].body.data = <<>> \/ AllPeriodsBelow(io[Len(io)].body))) =>
        /\ GenerationReturned
        /\ ReturnedFrame.rows = <<>>

\* a direct call answered with one period of 5000 MW
C15_Witness ==
    /\ caller = "direct"
    /\ LastIsSuccess
    /\ AllPeriodsBelow(io[Len(io)].body)
    /\ pc = "done"
    /\ result = Returned([cols |-> RecordCols \o <<"total_generation">>, rows |-> <<>>])

\* the distinct timestamps of X whose group total is below the threshold
DroppedTimestamps ==
    {ts \in {X.rows[i]["timestamp"] : i \in 1..Len(X.rows)} : ~ GroupIsValid(X.rows, ts)}

\* C16: the filter's count of dropped records is the number of input records minus
\* the number of output records, and its count of dropped timestamps is the number of
\* distinct input timestamps whose total is below 25000; the counts are logged when a
\* record was dropped.  3 records totalling 30000 and 2 totalling 10000: 2 dropped
\* records, 1 dropped timestamp, the 3 records kept.
C16_ReportedCounts ==
    fstage >= 1 =>
        /\ flog.bad_records = Len(X.rows) - Len(Y1.rows)
        /\ flog.logged <=> Len(Y1.rows) < Len(X.rows)
        /\ flog.logged => flog.bad_periods = Cardinality(DroppedTimestamps)
        /\ X = ScenarioFrame =>
              /\ flog = [logged |-> TRUE, bad_records |-> 2, bad_periods |-> 1]
              /\ Project(Y1.rows) = SubSeq(X.rows, 1, 3)

C16_Witness ==
    /\ fstage = 1
    /\ X = ScenarioFrame
    /\ flog.logged
    /\ Len(Y1.rows) = 3

\* C17: sub-windows are fetched one at a time in ascending start order: while the
\* requests of sub-window i+1 run, the outputs of sub-windows 1..i have been appended
\* and i inter-call sleeps of 1 second have been taken; these sleeps are counted apart
\* from the backoff sleeps of the retries, which never change their number.
C17_StrictlySequential ==
    caller = "historical" =>
        /\ \A i \in 1..(Len(calls) - 1) :
              /\ Before(calls[i][1], calls[i + 1][1])
              /\ calls[i][2] = calls[i + 1][1]
        /\ pc \in {"request", "backoff"} =>
              /\ Len(hist.all_data) = Len(calls) - 1
              /\ rlsleeps = (Len(calls) - 1) * 1
              /\ hist.current_start = calls[Len(calls)][1]
        /\ pc = "ratelimit" =>
              /\ Len(hist.all_data) = Len(calls)
              /\ rlsleeps = (Len(calls) - 1) * 1
        /\ (pc = "done" /\ result.kind = "return") => rlsleeps = Len(calls) * 1
        /\ \A k \in 1..Len(io) : io[k].ev = "sleep" => io[k].secs = Pow2(io[k].attempt)

\* the second sub-window is being retried after a backoff sleep
C17_Witness ==
    /\ caller = "historical"
    /\ pc = "request"
    /\ Len(calls) = 2
    /\ Len(hist.all_data) = 1
    /\ NumSleeps(io) = 1
    /\ rlsleeps = 1

Max0(n) == IF n > 0 THEN n ELSE 0

\* the numbers of requests and of sub-window fetches stay within their budgets
RequestBudget ==
    /\ caller # "none" => NumRequests(io) <= Max0(gen.retry_attempts)
    /\ caller = "direct" =>
          /\ nreq <= Max0(gen.retry_attempts)
          /\ gen.retry_attempts <= 0 => (pc = "done" /\ result.kind = "raise" /\ nreq = 0)
    /\ caller = "historical" =>
          /\ Len(calls) <= Max0(CeilDiv(hist.days, 7))
          /\ nreq <= 3 * Max0(CeilDiv(hist.days, 7))

\* whenever the loop of fetch_historical_data moves current_start, it moves it forward
CurrentStartIncreases ==
    (caller = "historical" /\ hist'.current_start # hist.current_start) =>
        Before(hist.current_start, hist'.current_start)

\* C18: every call ends, returning or raising; fetch_generation_data makes at most
\* retry_attempts requests (none, and a raise, when retry_attempts <= 0);
\* fetch_historical_data makes at most ceil(days/7) sub-window fetches, current_start
\* growing on every iteration, and at most 3 * ceil(days/7) requests.
C18_Terminates ==
    /\ [] RequestBudget
    /\ [][CurrentStartIncreases]_vars
    /\ <>(pc = "done")

\* a 15-day fetch that used its whole budget: 3 sub-windows, 9 requests
C18_Witness ==
    /\ caller = "historical"
    /\ pc = "done"
    /\ hist.days = MaxDays
    /\ Len(calls) = CeilDiv(hist.days, 7)
    /\ nreq = 3 * Len(calls)

\* event i of the running call is a request answered 200 with a body that parsed
IsSuccess(i) == io[i].ev = "request" /\ io[i].status = 200 /\ io[i].exc = "none"

\* the records of a body whose timestamp group reaches the threshold
ValidRecords(body) ==
    SelectSeq(EntryRecords(body),
              LAMBDA r : GroupIsValid(EntryRecords(body), r["timestamp"]))

\* C19: a request of fetch_generation_data answered 200 with a parseable body is the
\* last event of the call: no request and no backoff sleep follows it, every request
\* before it failed, the call has returned, and the rows returned are the valid
\* records of that one body, each once.
C19_SuccessEndsCall ==
    \A i \in 1..Len(io) :
        IsSuccess(i) =>
            /\ i = Len(io)
            /\ \A j \in 1..(i - 1) : ~ IsSuccess(j)
            /\ GenerationReturned
            /\ Len(ReturnedFrame.rows) = Len(ValidRecords(io[i].body))
            /\ Range(Project(ReturnedFrame.rows)) = Range(ValidRecords(io[i].body))

\* a transport failure, a 200 answer that did not parse, then a 200 answer with a
\* valid and an invalid period
C19_Witness ==
    /\ caller = "direct"
    /\ pc = "done"
    /\ Len(io) = 5
    /\ io[1].status = 0
    /\ io[3].status = 200 /\ io[3].exc = "KeyError"
    /\ IsSuccess(5)
    /\ Len(EntryRecords(io[5].body)) = 3
    /\ Len(result.df.rows) = 2

\* C20: fetch_historical_data with days <= 0 never enters its loop: no HTTP request,
\* no sleep, no sub-window call, and the concatenation of the empty chunk list raises,
\* so the call ends in an error and not in an empty result.
C20_NonPositiveDaysRaises ==
    (caller = "historical" /\ hist.days <= 0) =>
        /\ pc = "done"
        /\ result = Raised("ValueError: No objects to concatenate")
        /\ calls = <<>>
        /\ hist.all_data = <<>>
        /\ io = <<>>
        /\ nreq = 0
        /\ rlsleeps = 0

C20_Witness ==
    /\ caller = "historical"
    /\ hist.days = 0
    /\ hist.start_date = hist.end_date
    /\ pc = "done"
    /\ result.kind = "raise"
    /\ nreq = 0

====
